---- MODULE Spec2Model ----
(***************************************************************************)
(* Lending lifecycle of the library-management backend: the Book, User     *)
(* and Transaction documents and the request handlers that mutate them     *)
(* (routes/books.js, routes/transactions.js, routes/reviews.js,            *)
(* models/Transaction.js, models/Book.js, models/Review.js,                *)
(* middleware/auth.js).                                                    *)
(*                                                                         *)
(* Time is counted in whole days, money in cents.  One action is one       *)
(* request handler run to completion; what it answers is the value of its  *)
(* ...Outcome operator in the state it starts from.  Schema hooks run in   *)
(* the order the schema source registers them (due-date default, then      *)
(* status update).  Documents keep the fields the handlers decide on.      *)
(***************************************************************************)
EXTENDS Integers, Sequences, FiniteSets, TLC

\* ---------------------------------------------------------------- bounds
MaxTx == 2            \* transactions created in one behaviour of Spec
MaxTxLimit == 4       \* transactions created in one behaviour of SpecLimit
MaxDay == 31          \* last day the clock reaches
MaxCopies == 2        \* largest totalCopies a request body carries
MaxReviews == 2       \* reviews created in one behaviour of SpecReview

NoAmount == -1
NoStatus == "undefined"
Users == {"u1", "u2"}
Books == {"b1"}
LimitUser == "u1"
Staff == "staff"
AllBooks == {"b1", "b2", "b3", "b4"}
Conditions == {"new", "damaged"}
TickDays == {31}
RenewDays == {14}
FineBodies == {[amount |-> 500, status |-> "paid"]}
NoDate == -1
Admin == "admin"
ReviewBooks == {"b1", "b2"}
Ratings == {2, 5}

\* ------------------------------------------------------ program constants
PhysicalBorrowPeriod == 21
DefaultRenewDays == 14
DefaultMaxRenewals == 3
baseFine == 50
maxFine == 2500

VARIABLES now, books, users, txs
vars == <<now, books, users, txs>>

\* reqs[u]: the borrow request of user u that is in flight between two awaits
VARIABLE reqs

\* reviews: the Review collection; ratings[b]: averageRating (in tenths),
\* totalRatings and totalReviews of Book b
VARIABLES reviews, ratings

\* rets[s]: the return request of session s that is in flight between two awaits
VARIABLE rets
allvars == <<now, books, users, txs, reqs, reviews, ratings, rets>>
reviewVars == <<reviews, ratings>>
\* what the lending handlers run one at a time never touch
frame == <<reqs, reviews, ratings, rets>>

Max(a, b) == IF a >= b THEN a ELSE b
Min(a, b) == IF a <= b THEN a ELSE b

ActiveStatuses == {"active", "overdue"}

\* ------------------------------------------------------------------ Book
NoBook ==
  [exists |-> FALSE, totalCopies |-> 0, availableCopies |-> 0,
   isAvailable |-> FALSE, isActive |-> FALSE, isDeleted |-> FALSE,
   condition |-> "new"]

\* bookSchema.pre('save'): isAvailable follows availableCopies and isDeleted
bookPreSave(bk) ==
  [bk EXCEPT !.isAvailable = (bk.availableCopies > 0 /\ ~bk.isDeleted)]

\* schema validators of Book that run on save
bookValid(bk) == bk.availableCopies >= 0 /\ bk.totalCopies >= 1

canBeBorrowed_NoCopiesCheck(bk) ==
  ~bk.isDeleted /\ bk.condition # "damaged"

canBeBorrowed(bk) ==
  /\ bk.isAvailable
  /\ bk.availableCopies > 0
  /\ ~bk.isDeleted
  /\ bk.condition # "damaged"

\* the borrow handler's book update: availableCopies -= 1, then book.save()
borrowedBook(bk) == bookPreSave([bk EXCEPT !.availableCopies = @ - 1])

returnedBook_NoIncrement(bk) == bookPreSave(bk)

\* the return handlers' book update: availableCopies += 1, then book.save()
returnedBook(bk) == bookPreSave([bk EXCEPT !.availableCopies = @ + 1])

\* ------------------------------------------------------------------ User
membershipLimits(mt) ==
  CASE mt = "basic" -> 3
    [] mt = "premium" -> 10
    [] mt = "student" -> 5
    [] mt = "faculty" -> 8
    [] OTHER -> 3

\* currentBorrowedBooks is kept as the number of entries per book id
borrowedLength(u) ==
  LET cb == users[u].currentBorrowedBooks
      RECURSIVE Sum(_)
      Sum(S) == IF S = {} THEN 0
                ELSE LET b == CHOOSE x \in S : TRUE IN cb[b] + Sum(S \ {b})
  IN Sum(AllBooks)

\* middleware checkBorrowingLimits: TRUE when the request may proceed
checkBorrowingLimits(u) ==
  borrowedLength(u) < membershipLimits(users[u].membershipType)

\* ----------------------------------------------------------- Transaction
isOverdue(t, day) ==
  t.dueDate # NoDate /\ day > t.dueDate /\ t.status = "active"

daysOverdue(t, day) ==
  IF t.status # "overdue" \/ t.dueDate = NoDate THEN 0 ELSE day - t.dueDate

canRenew_StatusOnly(t, day) ==
  t.status = "active" /\ t.dueDate > day

canRenew_IgnoreDue(t, day) ==
  t.type = "borrow" /\ t.status = "active" /\ t.renewalCount < t.maxRenewals

canRenew(t, day) ==
  /\ t.type = "borrow"
  /\ t.status = "active"
  /\ t.renewalCount < t.maxRenewals
  /\ t.dueDate > day

\* pre('save') hook 1: default due date of a new borrow
preSaveDueDate(t, isNew, day) ==
  IF isNew /\ t.type = "borrow" /\ t.dueDate = NoDate
  THEN [t EXCEPT !.dueDate = day + PhysicalBorrowPeriod]
  ELSE t

preSaveStatus_AnyStatus(t, day) ==
  IF t.dueDate # NoDate /\ day > t.dueDate
  THEN [t EXCEPT !.status = "overdue"]
  ELSE t

\* pre('save') hook 2: an active transaction past its due date becomes overdue
preSaveStatus(t, day) ==
  IF isOverdue(t, day) /\ t.status = "active"
  THEN [t EXCEPT !.status = "overdue"]
  ELSE t

saveTx(t, isNew, day) == preSaveStatus(preSaveDueDate(t, isNew, day), day)

calculateFine(t, day) ==
  IF t.fineStatus = "paid" \/ t.fineStatus = "waived" THEN t
  ELSE IF ~isOverdue(t, day)
       THEN [t EXCEPT !.fineAmount = 0, !.fineStatus = "none"]
       ELSE LET amt == Min(daysOverdue(t, day) * baseFine, maxFine)
            IN [t EXCEPT !.fineAmount = amt,
                         !.fineStatus = IF amt > 0 THEN "pending" ELSE "none"]

\* schema validators of Transaction that run on save
txValid(t) == t.renewalCount <= 3 /\ t.fineAmount >= 0

renewed_KeepsType(t, days, day) ==
  [t EXCEPT !.renewalCount = t.renewalCount + 1, !.dueDate = day + days]

\* methods.renew up to the save, for a transaction that passed canRenew
renewed(t, days, day) ==
  [t EXCEPT !.renewalCount = t.renewalCount + 1,
            !.dueDate = day + days,
            !.type = "renew"]

renew(t, days, day) == saveTx(renewed(t, days, day), FALSE, day)

returnBookThrows(t) == t.status # "active" /\ t.status # "overdue"

\* methods.returnBook, for a transaction that does not throw
returnBook(t, day) ==
  saveTx(calculateFine([t EXCEPT !.status = "completed"], day), FALSE, day)

NewTx(u, b, type, status) ==
  [user |-> u, book |-> b, type |-> type, status |-> status,
   dueDate |-> NoDate,
   renewalCount |-> 0, maxRenewals |-> DefaultMaxRenewals,
   fineAmount |-> 0, fineStatus |-> "none"]

TxIds == 1..Len(txs)

\* Transaction.findOne({user, book, status: {$in: S}}): first match or 0
findOne(u, b, S) ==
  LET M == {i \in TxIds : txs[i].user = u /\ txs[i].book = b /\ txs[i].status \in S}
  IN IF M = {} THEN 0 ELSE CHOOSE i \in M : \A j \in M : i <= j

findReservation_AnyOpen(u, b) == findOne(u, b, {"pending", "active", "overdue"})

findReservation(u, b) ==
  LET M == {i \in TxIds : /\ txs[i].user = u /\ txs[i].book = b
                          /\ txs[i].type = "reserve" /\ txs[i].status = "pending"}
  IN IF M = {} THEN 0 ELSE CHOOSE i \in M : \A j \in M : i <= j

countActive(b) ==
  Cardinality({i \in TxIds : txs[i].book = b /\ txs[i].status \in ActiveStatuses})

countActiveOfUser(u) ==
  Cardinality({i \in TxIds : txs[i].user = u /\ txs[i].status \in ActiveStatuses})

\* no request in flight
IdleReq == [pc |-> "idle", book |-> "none", snap |-> NoBook]

\* two sessions whose return requests may overlap
Sessions == {"s1", "s2"}

\* no return request in flight
IdleRet == [pc |-> "idle", tid |-> 0]

\* Book defaults: averageRating 0, totalRatings 0, totalReviews 0
NoRatings == [averageRating |-> 0, totalRatings |-> 0, totalReviews |-> 0]

\* ------------------------------------------------------------------ Init
Init ==
  /\ now = 0
  /\ books = [b \in AllBooks |-> NoBook]
  /\ users = [u \in Users |->
       [membershipType |-> "basic",
        currentBorrowedBooks |-> [b \in AllBooks |-> 0],
        totalBooksBorrowed |-> 0, totalBooksRead |-> 0]]
  /\ txs = <<>>
  /\ reqs = [u \in Users |-> IdleReq]
  /\ reviews = <<>>
  /\ ratings = [b \in AllBooks |-> NoRatings]
  /\ rets = [s \in Sessions |-> IdleRet]

\* --------------------------------------------------------------- actions
Tick(d) ==
  /\ now + d <= MaxDay
  /\ now' = now + d
  /\ UNCHANGED <<books, users, txs>>

\* POST /api/books
CreateBook(b, n, cond) ==
  /\ ~books[b].exists
  /\ books' = [books EXCEPT ![b] = bookPreSave(
       [exists |-> TRUE, totalCopies |-> n, availableCopies |-> n,
        isAvailable |-> TRUE, isActive |-> TRUE, isDeleted |-> FALSE,
        condition |-> cond])]
  /\ UNCHANGED <<now, users, txs>>

bookMissing(bk) == ~bk.exists \/ ~bk.isActive \/ bk.isDeleted

\* PUT /api/books/:id with body {totalCopies: n}
updatedAvailable(bk, n) ==
  IF n # bk.totalCopies
  THEN Max(0, bk.availableCopies + (n - bk.totalCopies))
  ELSE bk.availableCopies

UpdateBookOutcome(b) == IF bookMissing(books[b]) THEN "NotFound" ELSE "OK"

UpdateBook(b, n) ==
  LET bk == books[b] IN
  IF UpdateBookOutcome(b) # "OK"
  THEN UNCHANGED vars
  ELSE /\ books' = [books EXCEPT ![b] =
            [bk EXCEPT !.totalCopies = n,
                       !.availableCopies = updatedAvailable(bk, n)]]
       /\ UNCHANGED <<now, users, txs>>

\* DELETE /api/books/:id
DeleteBookOutcome(b) ==
  IF ~books[b].exists \/ books[b].isDeleted THEN "NotFound"
  ELSE IF countActive(b) > 0 THEN "HasActive"
  ELSE "OK"

DeleteBook(b) ==
  IF DeleteBookOutcome(b) # "OK"
  THEN UNCHANGED vars
  ELSE /\ books' = [books EXCEPT ![b] =
            bookPreSave([@ EXCEPT !.isDeleted = TRUE, !.isActive = FALSE])]
       /\ UNCHANGED <<now, users, txs>>

BorrowBlocking_ActiveOnly == {"active"}

\* statuses of the "already has this book" query of the borrow handler
BorrowBlocking == {"active", "overdue"}

\* POST /api/books/:id/borrow: the answer the handler gives in this state
BorrowOutcome(u, b) ==
  LET bk == books[b] IN
  IF bookMissing(bk) THEN "NotFound"
  ELSE IF ~canBeBorrowed(bk) THEN "Unavailable"
  ELSE IF findOne(u, b, BorrowBlocking) # 0 THEN "DuplicateLoan"
  ELSE IF ~bookValid([bk EXCEPT !.availableCopies = @ - 1]) THEN "Error"
  ELSE "OK"

Borrow(u, b) ==
  LET bk == books[b]
      out == BorrowOutcome(u, b)
      t == saveTx(NewTx(u, b, "borrow", "active"), TRUE, now)
  IN
  IF out = "OK"
  THEN /\ txs' = Append(txs, t)
       /\ books' = [books EXCEPT ![b] = borrowedBook(bk)]
       /\ users' = [users EXCEPT
            ![u].currentBorrowedBooks[b] = @ + 1,
            ![u].totalBooksBorrowed = @ + 1]
       /\ UNCHANGED now
  ELSE IF out = "Error"
  THEN \* the transaction is saved, then book.save() rejects the negative count
       /\ txs' = Append(txs, t)
       /\ UNCHANGED <<now, books, users>>
  ELSE UNCHANGED vars

returnEffects_KeepsList(t) ==
  /\ books' = [books EXCEPT ![t.book] =
       IF books[t.book].exists THEN returnedBook(@) ELSE @]
  /\ users' = [users EXCEPT ![t.user].totalBooksRead = @ + 1]

returnEffects_NoRead(t) ==
  /\ books' = [books EXCEPT ![t.book] =
       IF books[t.book].exists THEN returnedBook(@) ELSE @]
  /\ users' = [users EXCEPT ![t.user].currentBorrowedBooks[t.book] = 0]

\* shared tail of both return handlers: book and user bookkeeping
returnEffects(t) ==
  /\ books' = [books EXCEPT ![t.book] =
       IF books[t.book].exists
       THEN returnedBook(@)
       ELSE @]
  /\ users' = [users EXCEPT
       ![t.user].currentBorrowedBooks[t.book] = 0,
       ![t.user].totalBooksRead = @ + 1]

\* POST /api/books/:id/return (the borrower)
MemberReturnOutcome(u, b) ==
  LET tid == findOne(u, b, ActiveStatuses) IN
  IF tid = 0 THEN "NotActive"
  ELSE IF returnBookThrows(txs[tid]) THEN "Error"
  ELSE "OK"

MemberReturn(u, b) ==
  LET tid == findOne(u, b, ActiveStatuses) IN
  IF MemberReturnOutcome(u, b) # "OK"
  THEN UNCHANGED vars
  ELSE /\ txs' = [txs EXCEPT ![tid] = returnBook(@, now)]
       /\ returnEffects(txs[tid])
       /\ UNCHANGED now

staffReturnRejects_Never(t) == FALSE

\* route guard of POST /api/transactions/:id/return
staffReturnRejects(t) == t.status # "active" /\ t.status # "overdue"

waive(t, waiveFine) ==
  IF waiveFine /\ t.fineAmount > 0
  THEN saveTx([t EXCEPT !.fineStatus = "waived"], FALSE, now)
  ELSE t

\* POST /api/transactions/:id/return (admin or librarian)
StaffReturnOutcome(tid) ==
  IF tid \notin TxIds THEN "NotFound"
  ELSE IF staffReturnRejects(txs[tid]) THEN "NotActive"
  ELSE IF returnBookThrows(txs[tid]) THEN "Error"
  ELSE "OK"

StaffReturn(tid, waiveFine) ==
  IF StaffReturnOutcome(tid) # "OK"
  THEN UNCHANGED vars
  ELSE /\ txs' = [txs EXCEPT ![tid] = waive(returnBook(@, now), waiveFine)]
       /\ returnEffects(txs[tid])
       /\ UNCHANGED now

\* POST /api/transactions/:id/renew, asked by `who` (a member or staff)
RenewByIdOutcome(tid, who, days) ==
  IF tid \notin TxIds THEN "NotFound"
  ELSE IF who # Staff /\ txs[tid].user # who THEN "AccessDenied"
  ELSE IF ~canRenew(txs[tid], now) THEN "NotRenewable"
  ELSE IF ~txValid(renewed(txs[tid], days, now)) THEN "Error"
  ELSE "OK"

RenewById(tid, who, days) ==
  IF RenewByIdOutcome(tid, who, days) # "OK"
  THEN UNCHANGED vars
  ELSE /\ txs' = [txs EXCEPT ![tid] = renew(@, days, now)]
       /\ UNCHANGED <<now, books, users>>

\* POST /api/books/:id/renew
RenewByBookOutcome(u, b) ==
  LET tid == findOne(u, b, ActiveStatuses) IN
  IF tid = 0 THEN "NotActive"
  ELSE IF ~canRenew(txs[tid], now) THEN "NotRenewable"
  ELSE IF ~txValid(renewed(txs[tid], DefaultRenewDays, now)) THEN "Error"
  ELSE "OK"

RenewByBook(u, b) ==
  LET tid == findOne(u, b, ActiveStatuses) IN
  IF RenewByBookOutcome(u, b) # "OK"
  THEN UNCHANGED vars
  ELSE /\ txs' = [txs EXCEPT ![tid] = renew(@, DefaultRenewDays, now)]
       /\ UNCHANGED <<now, books, users>>

ReserveBlocking_NoPending == {"active", "overdue"}

ReserveBlocking_WithCancelled == {"active", "overdue", "pending", "cancelled"}

\* statuses of the "already borrowed or reserved" query of the reserve handler
ReserveBlocking == {"active", "overdue", "pending"}

\* POST /api/books/:id/reserve
ReserveOutcome(u, b) ==
  IF bookMissing(books[b]) THEN "NotFound"
  ELSE IF findOne(u, b, ReserveBlocking) # 0 THEN "DuplicateLoan"
  ELSE "OK"

Reserve(u, b) ==
  IF ReserveOutcome(u, b) # "OK"
  THEN UNCHANGED vars
  ELSE /\ txs' = Append(txs, saveTx(NewTx(u, b, "reserve", "pending"), TRUE, now))
       /\ UNCHANGED <<now, books, users>>

\* POST /api/books/:id/cancel-reservation
CancelReservationOutcome(u, b) ==
  IF findReservation(u, b) = 0 THEN "NotFound" ELSE "OK"

CancelReservation(u, b) ==
  LET tid == findReservation(u, b) IN
  IF CancelReservationOutcome(u, b) # "OK"
  THEN UNCHANGED vars
  ELSE /\ txs' = [txs EXCEPT ![tid] =
            saveTx([@ EXCEPT !.status = "cancelled"], FALSE, now)]
       /\ UNCHANGED <<now, books, users>>

\* POST /api/transactions/:id/fine with body {amount?, status?}
FineUpdate(tid, amount, status) ==
  IF tid \notin TxIds
  THEN UNCHANGED vars
  ELSE LET t == txs[tid]
           t1 == IF amount # NoAmount THEN [t EXCEPT !.fineAmount = amount] ELSE t
           t2 == IF status # NoStatus THEN [t1 EXCEPT !.fineStatus = status] ELSE t1
       IN /\ txs' = [txs EXCEPT ![tid] = saveTx(t2, FALSE, now)]
          /\ UNCHANGED <<now, books, users>>

\* Transaction.findOverdue(): the ids the query selects
findOverdue_AnyOpen ==
  {i \in TxIds : /\ txs[i].status \in {"active", "overdue"}
                 /\ txs[i].dueDate # NoDate /\ txs[i].dueDate < now}

findOverdue ==
  {i \in TxIds : /\ txs[i].status = "active"
                 /\ txs[i].dueDate # NoDate /\ txs[i].dueDate < now}

\* GET /api/transactions/:id, asked by `who`: a lean read
GetTransactionOutcome(tid, who) ==
  IF tid \notin TxIds THEN "NotFound"
  ELSE IF who # Staff /\ txs[tid].user # who THEN "AccessDenied"
  ELSE "OK"

GetTransaction(tid, who) ==
  /\ GetTransactionOutcome(tid, who) \in {"NotFound", "AccessDenied", "OK"}
  /\ UNCHANGED vars

\* a caller running Transaction.findOverdue(): a query, nothing is saved
FindOverdueRead ==
  /\ findOverdue \subseteq TxIds
  /\ UNCHANGED vars

Next ==
  \/ \E d \in TickDays : Tick(d) /\ UNCHANGED frame
  \/ \E tid \in 1..MaxTx, who \in Users \cup {Staff} : GetTransaction(tid, who) /\ UNCHANGED frame
  \/ FindOverdueRead /\ UNCHANGED frame
  \/ \E b \in Books, n \in 1..MaxCopies, c \in Conditions : CreateBook(b, n, c) /\ UNCHANGED frame
  \/ \E b \in Books, n \in 1..MaxCopies : UpdateBook(b, n) /\ UNCHANGED frame
  \/ \E b \in Books : DeleteBook(b) /\ UNCHANGED frame
  \/ \E u \in Users, b \in Books : Len(txs) < MaxTx /\ Borrow(u, b) /\ UNCHANGED frame
  \/ \E u \in Users, b \in Books : MemberReturn(u, b) /\ UNCHANGED frame
  \/ \E tid \in 1..MaxTx, w \in BOOLEAN : StaffReturn(tid, w) /\ UNCHANGED frame
  \/ \E tid \in 1..MaxTx, who \in Users \cup {Staff}, d \in RenewDays :
        RenewById(tid, who, d) /\ UNCHANGED frame
  \/ \E u \in Users, b \in Books : RenewByBook(u, b) /\ UNCHANGED frame
  \/ \E u \in Users, b \in Books : Len(txs) < MaxTx /\ Reserve(u, b) /\ UNCHANGED frame
  \/ \E u \in Users, b \in Books : CancelReservation(u, b) /\ UNCHANGED frame
  \/ \E tid \in 1..MaxTx : FineUpdate(tid, NoAmount, NoStatus) /\ UNCHANGED frame

Spec == Init /\ [][Next]_allvars

\* every handler that writes a Transaction, with fine updates that carry an
\* amount and a status
NextFine ==
  \/ \E d \in TickDays : Tick(d) /\ UNCHANGED frame
  \/ \E b \in Books, n \in 1..MaxCopies : CreateBook(b, n, "new") /\ UNCHANGED frame
  \/ \E u \in Users, b \in Books : Len(txs) < MaxTx /\ Borrow(u, b) /\ UNCHANGED frame
  \/ \E u \in Users, b \in Books : MemberReturn(u, b) /\ UNCHANGED frame
  \/ \E tid \in 1..MaxTx, w \in BOOLEAN : StaffReturn(tid, w) /\ UNCHANGED frame
  \/ \E tid \in 1..MaxTx, who \in Users \cup {Staff}, d \in RenewDays :
        RenewById(tid, who, d) /\ UNCHANGED frame
  \/ \E u \in Users, b \in Books : RenewByBook(u, b) /\ UNCHANGED frame
  \/ \E u \in Users, b \in Books : Len(txs) < MaxTx /\ Reserve(u, b) /\ UNCHANGED frame
  \/ \E u \in Users, b \in Books : CancelReservation(u, b) /\ UNCHANGED frame
  \/ \E tid \in 1..MaxTx, f \in FineBodies : FineUpdate(tid, f.amount, f.status) /\ UNCHANGED frame

SpecFine == Init /\ [][NextFine]_allvars

\* One member and a catalogue of single-copy books: the membership-limit cases
NextLimit ==
  \/ \E b \in AllBooks : CreateBook(b, 1, "new") /\ UNCHANGED frame
  \/ \E b \in AllBooks : Len(txs) < MaxTxLimit /\ Borrow(LimitUser, b) /\ UNCHANGED frame
  \/ \E b \in AllBooks : MemberReturn(LimitUser, b) /\ UNCHANGED frame
  \/ \E b \in AllBooks : RenewByBook(LimitUser, b) /\ UNCHANGED frame

SpecLimit == Init /\ [][NextLimit]_allvars

\* ------------------------------------------- the borrow handler, await by await
\* book.save() of a document read earlier writes the paths modified since the
\* read: availableCopies, and isAvailable when the save hook changed it
savedBook_Decrement(db, snap, local) ==
  [db EXCEPT !.availableCopies = @ - 1,
             !.isAvailable = IF local.isAvailable # snap.isAvailable
                             THEN local.isAvailable ELSE @]

savedBook(db, snap, local) ==
  [db EXCEPT !.availableCopies = local.availableCopies,
             !.isAvailable = IF local.isAvailable # snap.isAvailable
                             THEN local.isAvailable ELSE @]

\* await Book.findById, then the isActive and canBeBorrowed checks
RaceRead(u, b) ==
  /\ reqs[u].pc = "idle"
  /\ IF bookMissing(books[b]) \/ ~canBeBorrowed(books[b])
     THEN UNCHANGED allvars
     ELSE /\ reqs' = [reqs EXCEPT ![u] =
               [pc |-> "checked", book |-> b, snap |-> books[b]]]
          /\ UNCHANGED vars

\* await Transaction.findOne: the "already borrowed" check
RaceFindExisting(u) ==
  /\ reqs[u].pc = "checked"
  /\ reqs' = [reqs EXCEPT ![u] =
       IF findOne(u, reqs[u].book, BorrowBlocking) # 0
       THEN IdleReq ELSE [@ EXCEPT !.pc = "saveTx"]]
  /\ UNCHANGED vars

\* await transaction.save()
RaceSaveTx(u) ==
  /\ reqs[u].pc = "saveTx"
  /\ txs' = Append(txs, saveTx(NewTx(u, reqs[u].book, "borrow", "active"), TRUE, now))
  /\ reqs' = [reqs EXCEPT ![u].pc = "saveBook"]
  /\ UNCHANGED <<now, books, users>>

\* book.availableCopies -= 1 on the document read at the start; await book.save()
RaceSaveBook(u) ==
  LET r == reqs[u]
      local == borrowedBook(r.snap)
  IN
  /\ r.pc = "saveBook"
  /\ IF ~bookValid(local)
     THEN /\ reqs' = [reqs EXCEPT ![u] = IdleReq]
          /\ UNCHANGED vars
     ELSE /\ books' = [books EXCEPT ![r.book] = savedBook(@, r.snap, local)]
          /\ reqs' = [reqs EXCEPT ![u].pc = "saveUser"]
          /\ UNCHANGED <<now, users, txs>>

\* currentBorrowedBooks.push, totalBooksBorrowed += 1; await req.user.save()
RaceSaveUser(u) ==
  /\ reqs[u].pc = "saveUser"
  /\ users' = [users EXCEPT
       ![u].currentBorrowedBooks[reqs[u].book] = @ + 1,
       ![u].totalBooksBorrowed = @ + 1]
  /\ reqs' = [reqs EXCEPT ![u] = IdleReq]
  /\ UNCHANGED <<now, books, txs>>

\* Borrow requests of different users interleaving at their awaits
NextRace ==
  \/ \E b \in Books, n \in 1..MaxCopies : CreateBook(b, n, "new") /\ UNCHANGED frame
  \/ \E u \in Users, b \in Books : RaceRead(u, b) /\ UNCHANGED <<reviewVars, rets>>
  \/ \E u \in Users : RaceFindExisting(u) /\ UNCHANGED <<reviewVars, rets>>
  \/ \E u \in Users : Len(txs) < MaxTx /\ RaceSaveTx(u) /\ UNCHANGED <<reviewVars, rets>>
  \/ \E u \in Users : RaceSaveBook(u) /\ UNCHANGED <<reviewVars, rets>>
  \/ \E u \in Users : RaceSaveUser(u) /\ UNCHANGED <<reviewVars, rets>>
  \/ \E u \in Users, b \in Books : MemberReturn(u, b) /\ UNCHANGED frame

SpecRace == Init /\ [][NextRace]_allvars

\* --------------------------------------- handlers in which one save rejects
\* the awaited saves of a handler, in the order it runs them
SaveSteps == {"transaction", "book", "user"}

\* POST /api/books/:id/borrow when the save named by step rejects: the saves
\* before it are kept and the catch block answers 500
BorrowFault(u, b, step) ==
  LET bk == books[b]
      t == saveTx(NewTx(u, b, "borrow", "active"), TRUE, now)
  IN
  /\ BorrowOutcome(u, b) = "OK"
  /\ txs' = IF step = "transaction" THEN txs ELSE Append(txs, t)
  /\ books' = IF step = "user" THEN [books EXCEPT ![b] = borrowedBook(bk)] ELSE books
  /\ UNCHANGED <<now, users>>

\* POST /api/transactions/:id/return when the save named by step rejects
ReturnFault(tid, step) ==
  /\ StaffReturnOutcome(tid) = "OK"
  /\ LET t == txs[tid] IN
     /\ txs' = IF step = "transaction" THEN txs
               ELSE [txs EXCEPT ![tid] = returnBook(@, now)]
     /\ books' = IF step = "user" /\ books[t.book].exists
                 THEN [books EXCEPT ![t.book] = returnedBook(@)] ELSE books
  /\ UNCHANGED <<now, users>>

NextFault ==
  \/ \E d \in TickDays : Tick(d) /\ UNCHANGED frame
  \/ \E b \in Books, n \in 1..MaxCopies : CreateBook(b, n, "new") /\ UNCHANGED frame
  \/ \E u \in Users, b \in Books : Len(txs) < MaxTx /\ Borrow(u, b) /\ UNCHANGED frame
  \/ \E u \in Users, b \in Books : MemberReturn(u, b) /\ UNCHANGED frame
  \/ \E tid \in 1..MaxTx, w \in BOOLEAN : StaffReturn(tid, w) /\ UNCHANGED frame
  \/ \E u \in Users, b \in Books, st \in SaveSteps :
        Len(txs) < MaxTx /\ BorrowFault(u, b, st) /\ UNCHANGED frame
  \/ \E tid \in 1..MaxTx, st \in SaveSteps : ReturnFault(tid, st) /\ UNCHANGED frame

SpecFault == Init /\ [][NextFault]_allvars

\* ------------------------------------------- return requests that interleave
\* POST /api/transactions/:id/return, one step per await.
\* await Transaction.findById, then the status guard of the route
RetFind(s, tid) ==
  /\ rets[s].pc = "idle"
  /\ IF tid \notin TxIds \/ staffReturnRejects(txs[tid])
     THEN UNCHANGED allvars
     ELSE /\ rets' = [rets EXCEPT ![s] = [pc |-> "returnBook", tid |-> tid, doc |-> txs[tid]]]
          /\ UNCHANGED vars

\* await transaction.returnBook(): status check and save of the document read
RetSaveTx(s) ==
  LET r == rets[s] IN
  /\ r.pc = "returnBook"
  /\ IF returnBookThrows(r.doc)
     THEN /\ rets' = [rets EXCEPT ![s] = IdleRet]
          /\ UNCHANGED vars
     ELSE /\ txs' = [txs EXCEPT ![r.tid] = returnBook(r.doc, now)]
          /\ rets' = [rets EXCEPT ![s] = [pc |-> "findBook", tid |-> r.tid]]
          /\ UNCHANGED <<now, books, users>>

\* await Book.findById(transaction.book)
RetFindBook(s) ==
  LET r == rets[s] IN
  /\ r.pc = "findBook"
  /\ rets' = [rets EXCEPT ![s] =
       [pc |-> "saveBook", tid |-> r.tid, snap |-> books[txs[r.tid].book]]]
  /\ UNCHANGED vars

\* book.availableCopies += 1; await book.save()
RetSaveBook(s) ==
  LET r == rets[s]
      b == txs[r.tid].book
      local == returnedBook(r.snap)
  IN
  /\ r.pc = "saveBook"
  /\ books' = [books EXCEPT ![b] = IF r.snap.exists THEN savedBook(@, r.snap, local) ELSE @]
  /\ rets' = [rets EXCEPT ![s] = [pc |-> "findUser", tid |-> r.tid]]
  /\ UNCHANGED <<now, users, txs>>

\* await User.findById(transaction.user)
RetFindUser(s) ==
  LET r == rets[s] IN
  /\ r.pc = "findUser"
  /\ rets' = [rets EXCEPT ![s] =
       [pc |-> "saveUser", tid |-> r.tid, snap |-> users[txs[r.tid].user]]]
  /\ UNCHANGED vars

\* currentBorrowedBooks filter, totalBooksRead += 1; await user.save()
RetSaveUser(s) ==
  LET r == rets[s]
      t == txs[r.tid]
  IN
  /\ r.pc = "saveUser"
  /\ users' = [users EXCEPT
       ![t.user].currentBorrowedBooks =
          [r.snap.currentBorrowedBooks EXCEPT ![t.book] = 0],
       ![t.user].totalBooksRead = r.snap.totalBooksRead + 1]
  /\ rets' = [rets EXCEPT ![s] = IdleRet]
  /\ UNCHANGED <<now, books, txs>>

retFrame == <<reqs, reviews, ratings>>

NextReturnRace ==
  \/ \E b \in Books, n \in 1..MaxCopies : CreateBook(b, n, "new") /\ UNCHANGED frame
  \/ \E u \in Users, b \in Books : Len(txs) < MaxTx /\ Borrow(u, b) /\ UNCHANGED frame
  \/ \E s \in Sessions, tid \in 1..MaxTx : RetFind(s, tid) /\ UNCHANGED retFrame
  \/ \E s \in Sessions : RetSaveTx(s) /\ UNCHANGED retFrame
  \/ \E s \in Sessions : RetFindBook(s) /\ UNCHANGED retFrame
  \/ \E s \in Sessions : RetSaveBook(s) /\ UNCHANGED retFrame
  \/ \E s \in Sessions : RetFindUser(s) /\ UNCHANGED retFrame
  \/ \E s \in Sessions : RetSaveUser(s) /\ UNCHANGED retFrame

SpecReturnRace == Init /\ [][NextReturnRace]_allvars

\* ------------------------------------------------- book update, system fields
\* PUT /api/books/:id with body {isDeleted: deleted, isActive: active}: the
\* body goes to findByIdAndUpdate as sent, no save hook runs
UpdateBookFlags(b, deleted, active) ==
  IF UpdateBookOutcome(b) # "OK"
  THEN UNCHANGED vars
  ELSE /\ books' = [books EXCEPT ![b].isDeleted = deleted, ![b].isActive = active]
       /\ UNCHANGED <<now, users, txs>>

NextAdmin ==
  \/ \E d \in TickDays : Tick(d) /\ UNCHANGED frame
  \/ \E b \in Books, n \in 1..MaxCopies : CreateBook(b, n, "new") /\ UNCHANGED frame
  \/ \E b \in Books, n \in 1..MaxCopies : UpdateBook(b, n) /\ UNCHANGED frame
  \/ \E b \in Books, d, a \in BOOLEAN : UpdateBookFlags(b, d, a) /\ UNCHANGED frame
  \/ \E b \in Books : DeleteBook(b) /\ UNCHANGED frame
  \/ \E u \in Users, b \in Books : Len(txs) < MaxTx /\ Borrow(u, b) /\ UNCHANGED frame
  \/ \E u \in Users, b \in Books : MemberReturn(u, b) /\ UNCHANGED frame
  \/ \E tid \in 1..MaxTx, w \in BOOLEAN : StaffReturn(tid, w) /\ UNCHANGED frame

SpecAdmin == Init /\ [][NextAdmin]_allvars

\* ---------------------------------------------------------------- reviews
ReviewIds == 1..Len(reviews)

publishedOf(rs, b) ==
  {i \in 1..Len(rs) : rs[i].book = b /\ rs[i].status = "published"}

RECURSIVE sumRatings(_, _)
sumRatings(rs, S) ==
  IF S = {} THEN 0
  ELSE LET i == CHOOSE x \in S : TRUE IN rs[i].rating + sumRatings(rs, S \ {i})

\* Math.round(total / n * 10) / 10, kept in tenths
roundedAverage(total, n) == (20 * total + n) \div (2 * n)

\* Review.updateBookRatings(bookId) over the collection rs
updateBookRatings(rs, rt, b) ==
  LET P == publishedOf(rs, b)
      n == Cardinality(P)
  IN IF n = 0 THEN rt
     ELSE IF ~books[b].exists THEN rt
     ELSE [rt EXCEPT ![b] = [averageRating |-> roundedAverage(sumRatings(rs, P), n),
                             totalRatings |-> n, totalReviews |-> n]]

\* POST /api/reviews with body {book: b, transaction: tid, rating}
CreateReviewOutcome(u, b, tid) ==
  IF ~(tid \in TxIds /\ txs[tid].user = u /\ txs[tid].status = "completed")
  THEN "NoTransaction"
  ELSE IF \E i \in ReviewIds : /\ reviews[i].user = u /\ reviews[i].book = b
                               /\ reviews[i].status # "removed"
  THEN "AlreadyReviewed"
  ELSE "OK"

CreateReview(u, b, tid, rating) ==
  IF CreateReviewOutcome(u, b, tid) # "OK"
  THEN UNCHANGED allvars
  ELSE LET r == [user |-> u, book |-> b, transaction |-> tid,
                 rating |-> rating, status |-> "published"]
           rs == Append(reviews, r)
       IN /\ reviews' = rs
          \* the pre-save hook recomputes before the insert, the route after it
          /\ ratings' = updateBookRatings(rs, updateBookRatings(reviews, ratings, b), b)
          /\ UNCHANGED <<vars, reqs, rets>>

reviewAccess(rid, who) ==
  IF rid \notin ReviewIds THEN "NotFound"
  ELSE IF who # Admin /\ reviews[rid].user # who THEN "Forbidden"
  ELSE "OK"

\* PUT /api/reviews/:id with body {rating}
UpdateReview(rid, who, rating) ==
  IF reviewAccess(rid, who) # "OK"
  THEN UNCHANGED allvars
  ELSE LET rs == [reviews EXCEPT ![rid].rating = rating]
       IN /\ reviews' = rs
          /\ ratings' = updateBookRatings(rs, ratings, reviews[rid].book)
          /\ UNCHANGED <<vars, reqs, rets>>

\* DELETE /api/reviews/:id (soft delete)
DeleteReview(rid, who) ==
  IF reviewAccess(rid, who) # "OK"
  THEN UNCHANGED allvars
  ELSE LET rs == [reviews EXCEPT ![rid].status = "removed"]
       IN /\ reviews' = rs
          /\ ratings' = updateBookRatings(rs, ratings, reviews[rid].book)
          /\ UNCHANGED <<vars, reqs, rets>>

\* a new book gets a fresh id: one no review refers to yet
freshBookId(b) == \A i \in ReviewIds : reviews[i].book # b

NextReview ==
  \/ \E b \in ReviewBooks : freshBookId(b) /\ CreateBook(b, 1, "new") /\ UNCHANGED frame
  \/ \E u \in Users, b \in ReviewBooks : Len(txs) < MaxTx /\ Borrow(u, b) /\ UNCHANGED frame
  \/ \E u \in Users, b \in ReviewBooks : MemberReturn(u, b) /\ UNCHANGED frame
  \/ \E u \in Users, b \in ReviewBooks, tid \in 1..MaxTx, r \in Ratings :
        Len(reviews) < MaxReviews /\ CreateReview(u, b, tid, r)
  \/ \E rid \in 1..MaxReviews, who \in Users \cup {Admin}, r \in Ratings :
        UpdateReview(rid, who, r)
  \/ \E rid \in 1..MaxReviews, who \in Users \cup {Admin} : DeleteReview(rid, who)

SpecReview == Init /\ [][NextReview]_allvars

\* ---------------------------------------------------------------- claims
holdsLoan(u, b) == findOne(u, b, ActiveStatuses) # 0

openFor(u, b) == findOne(u, b, {"pending", "active", "overdue"}) # 0

loansOfPair(u, b) ==
  {i \in TxIds : txs[i].user = u /\ txs[i].book = b /\ txs[i].status \in ActiveStatuses}

reservationsOfPair(u, b) ==
  {i \in TxIds : txs[i].user = u /\ txs[i].book = b /\ txs[i].status = "pending"}

\* C1: every Book keeps 0 <= availableCopies <= totalCopies after any
\* sequence of handlers run one at a time.
C1_CopiesWithinTotal ==
  \A b \in AllBooks : books[b].exists =>
    /\ 0 <= books[b].availableCopies
    /\ books[b].availableCopies <= books[b].totalCopies

\* C2: for every Book, totalCopies - availableCopies is the number of its
\* transactions whose status is active or overdue.
C2_CopiesMatchLoans ==
  \A b \in AllBooks : books[b].exists =>
    books[b].totalCopies - books[b].availableCopies = countActive(b)

\* C3: a user never holds more active or overdue transactions than the
\* membership limit, and at the limit every further Borrow is refused.
C3_LimitEnforced ==
  \A u \in Users :
    LET lim == membershipLimits(users[u].membershipType) IN
    /\ countActiveOfUser(u) <= lim
    /\ countActiveOfUser(u) = lim =>
         \A b \in AllBooks : BorrowOutcome(u, b) \notin {"OK", "Error"}

daysLate(t, day) == IF t.dueDate # NoDate /\ day > t.dueDate THEN day - t.dueDate ELSE 0

fineDue(n) == Min(n * baseFine, maxFine)

\* C4: a Return (the step that takes a transaction from active or overdue to
\* completed) of a loan whose fine is not already settled, N whole days past
\* its dueDate, records fineAmount = min(N x 0.50, 25.00) with fineStatus
\* pending when that is positive, and 0 with fineStatus none otherwise.
C4_ReturnFine ==
  [][\A tid \in TxIds :
       ( /\ txs[tid].status \in ActiveStatuses
         /\ txs[tid].fineStatus \notin {"paid", "waived"}
         /\ txs'[tid].status = "completed" )
       => LET due == fineDue(daysLate(txs[tid], now)) IN
          /\ txs'[tid].fineAmount = due
          /\ txs'[tid].fineStatus = IF due > 0 THEN "pending" ELSE "none"]_vars

\* C5: a loan that is active, not past its dueDate and renewed fewer than
\* three times is renewed again when its borrower asks.
C5_RenewUpToCap ==
  \A tid \in TxIds :
    LET t == txs[tid] IN
    (t.status = "active" /\ t.dueDate > now /\ t.renewalCount < DefaultMaxRenewals)
      => RenewByIdOutcome(tid, t.user, DefaultRenewDays) = "OK"

C9_Original ==
  \A u \in Users, b \in AllBooks :
    openFor(u, b) => ReserveOutcome(u, b) = "DuplicateLoan"

\* C9 amended: Reserve by a user with a pending, active or overdue transaction
\* for the book creates no transaction and changes nothing; it is answered
\* NotFound when the book has meanwhile been soft-deleted and DuplicateLoan
\* otherwise; a user has at most one pending reservation per book.
C9_OneReservationPerPair ==
  \A u \in Users, b \in Books :
    /\ Cardinality(reservationsOfPair(u, b)) <= 1
    /\ openFor(u, b) =>
         /\ ReserveOutcome(u, b) =
              IF bookMissing(books[b]) THEN "NotFound" ELSE "DuplicateLoan"
         /\ ~ENABLED (Reserve(u, b) /\ vars' # vars)

\* C9 witness: a second Reserve while the first reservation is pending.
C9_Witness ==
  \E u \in Users, b \in AllBooks :
    reservationsOfPair(u, b) # {} /\ ReserveOutcome(u, b) = "DuplicateLoan"

\* C10: Return of a transaction that is not active or overdue is answered
\* NotActive by both return routes and changes nothing.
C10_ReturnNotActive ==
  /\ \A tid \in TxIds :
       txs[tid].status \notin ActiveStatuses =>
         /\ StaffReturnOutcome(tid) = "NotActive"
         /\ \A w \in BOOLEAN : ~ENABLED (StaffReturn(tid, w) /\ vars' # vars)
  /\ \A u \in Users, b \in Books :
       ~holdsLoan(u, b) =>
         /\ MemberReturnOutcome(u, b) = "NotActive"
         /\ ~ENABLED (MemberReturn(u, b) /\ vars' # vars)

\* C10 witness: a completed transaction whose Return is asked again.
C10_Witness ==
  \E tid \in TxIds :
    /\ txs[tid].status = "completed"
    /\ StaffReturnOutcome(tid) = "NotActive"
    /\ MemberReturnOutcome(txs[tid].user, txs[tid].book) = "NotActive"

\* C11: in every state where Borrow(u, b) is accepted, the loan it creates
\* can be returned at once and the book update of that Return applied to the
\* book update of the Borrow restores availableCopies.
C11_BorrowReturnNetZero ==
  \A u \in Users, b \in Books :
    BorrowOutcome(u, b) = "OK" =>
      LET t == saveTx(NewTx(u, b, "borrow", "active"), TRUE, now) IN
      /\ ~returnBookThrows(t) /\ ~staffReturnRejects(t)
      /\ returnedBook(borrowedBook(books[b])).availableCopies
           = books[b].availableCopies

\* C11 witness: a loan of the book was taken and returned, and a Borrow of it
\* is accepted again.
C11_Witness ==
  \E u \in Users, b \in Books :
    /\ BorrowOutcome(u, b) = "OK"
    /\ \E tid \in TxIds : txs[tid].book = b /\ txs[tid].status = "completed"

TerminalStatuses == {"completed", "cancelled"}

\* the fields of a transaction other than its fine
lifecycleFields(t) ==
  <<t.user, t.book, t.type, t.status, t.dueDate, t.renewalCount, t.maxRenewals>>

\* C12 as stated: no step changes any field of a completed or cancelled
\* transaction.
C12_Original ==
  [][\A tid \in TxIds :
       txs[tid].status \in TerminalStatuses => txs'[tid] = txs[tid]]_vars

\* C12 amended: a completed or cancelled transaction keeps its status, user,
\* book, type, dueDate and renewalCount in every later step; only its
\* fineAmount and fineStatus can still change (the staff fine update).
C12_TerminalLifecycle ==
  [][txs' # txs =>
       \A tid \in TxIds :
         txs[tid].status \in TerminalStatuses =>
           /\ tid \in DOMAIN txs'
           /\ lifecycleFields(txs'[tid]) = lifecycleFields(txs[tid])]_vars

\* C12 witness: a completed loan, past its due date, carrying the fine a
\* fine update writes.
C12_Witness ==
  \E tid \in TxIds :
    /\ txs[tid].status = "completed" /\ now > txs[tid].dueDate
    /\ txs[tid].fineStatus = "paid" /\ txs[tid].fineAmount = 500

\* two requests that both read one available copy and both saved the book
bothDecremented(u1, u2, b) ==
  /\ u1 # u2
  /\ reqs[u1].pc = "saveUser" /\ reqs[u1].book = b
  /\ reqs[u2].pc = "saveUser" /\ reqs[u2].book = b
  /\ reqs[u1].snap.availableCopies = 1 /\ reqs[u2].snap.availableCopies = 1
  /\ countActive(b) >= 2

\* C13 as stated: when two interleaved Borrow requests both passed the check
\* on a single available copy and both saved their decrement,
\* availableCopies is below zero.
C13_Original ==
  \A u1 \in Users, u2 \in Users, b \in Books :
    bothDecremented(u1, u2, b) => books[b].availableCopies < 0

\* C13 amended: two interleaved Borrow requests can both pass the check on a
\* single available copy and both create an active loan, but each saves the
\* count it computed from its own read (1 - 1 = 0): availableCopies is never
\* below zero, it is 0 once both have saved, with both loans out (a lost update).
C13_LostUpdateNotNegative ==
  /\ \A b \in Books : books[b].exists => books[b].availableCopies >= 0
  /\ \A u \in Users : reqs[u].pc # "idle" => reqs[u].snap.availableCopies >= 1
  /\ \A u1 \in Users, u2 \in Users, b \in Books :
       bothDecremented(u1, u2, b) => books[b].availableCopies = 0

\* C13 witness: a one-copy book with two active loans after both requests
\* saved the book.
C13_Witness ==
  \E u1 \in Users, u2 \in Users, b \in Books :
    bothDecremented(u1, u2, b) /\ books[b].totalCopies = 1

\* C14: a Borrow or Return in which some save step fails leaves the
\* transactions, the books and the users as they were before the request.
C14_NoPartialState ==
  /\ \A u \in Users, b \in Books, st \in SaveSteps :
       ~ENABLED (BorrowFault(u, b, st) /\ vars' # vars)
  /\ \A tid \in TxIds, st \in SaveSteps :
       ~ENABLED (ReturnFault(tid, st) /\ vars' # vars)

liveReviewsOf(tid) ==
  {i \in ReviewIds : reviews[i].transaction = tid /\ reviews[i].status # "removed"}

\* C15: every review refers to a completed transaction of its author, and no
\* transaction has more than one review that is not removed.
C15_ReviewPerTransaction ==
  /\ \A i \in ReviewIds :
       LET tid == reviews[i].transaction IN
       /\ tid \in TxIds
       /\ txs[tid].user = reviews[i].user
       /\ txs[tid].status = "completed"
  /\ \A tid \in TxIds : Cardinality(liveReviewsOf(tid)) <= 1

\* C16: for every stored Book, totalRatings and totalReviews are the number
\* of its published reviews and averageRating is their mean rounded to one
\* decimal (0 when there is none), after any sequence of review creates,
\* rating updates and deletes.
C16_RatingsMatchReviews ==
  \A b \in ReviewBooks : books[b].exists =>
    LET P == publishedOf(reviews, b)
        n == Cardinality(P)
    IN /\ ratings[b].totalRatings = n
       /\ ratings[b].totalReviews = n
       /\ ratings[b].averageRating =
            IF n = 0 THEN 0 ELSE roundedAverage(sumRatings(reviews, P), n)

\* the cases in which the claim C17 says a Renew is refused
renewForbidden(t) ==
  \/ t.status # "active"
  \/ t.type # "borrow"
  \/ t.renewalCount >= DefaultMaxRenewals
  \/ now > t.dueDate

\* C17: a Renew of a transaction that is not active, not of type borrow, at
\* renewalCount >= 3 or past its dueDate is answered NotRenewable, to its
\* borrower and to staff, on the transaction route and on the book route
\* (when that route selects the transaction), and changes nothing.
C17_RenewRefused ==
  \A tid \in TxIds :
    LET t == txs[tid] IN
    renewForbidden(t) =>
      /\ \A who \in {t.user, Staff}, d \in RenewDays :
           /\ RenewByIdOutcome(tid, who, d) = "NotRenewable"
           /\ ~ENABLED (RenewById(tid, who, d) /\ vars' # vars)
      /\ findOne(t.user, t.book, ActiveStatuses) = tid =>
           /\ RenewByBookOutcome(t.user, t.book) = "NotRenewable"
           /\ ~ENABLED (RenewByBook(t.user, t.book) /\ vars' # vars)

\* C17 witness: a loan still stored as active whose dueDate has passed, and
\* whose Renew is refused on both routes.
C17_Witness ==
  \E tid \in TxIds :
    /\ txs[tid].status = "active" /\ txs[tid].type = "borrow"
    /\ now > txs[tid].dueDate
    /\ RenewByIdOutcome(tid, txs[tid].user, DefaultRenewDays) = "NotRenewable"
    /\ RenewByBookOutcome(txs[tid].user, txs[tid].book) = "NotRenewable"

\* what the claim C18 says a successful Renew of transaction tid by days does
renewEffect(tid, days) ==
  /\ Len(txs') = Len(txs)
  /\ txs'[tid].renewalCount = txs[tid].renewalCount + 1
  /\ txs'[tid].dueDate = now + days
  /\ txs'[tid].type = "renew"
  /\ txs[tid].status = "active" /\ txs'[tid].status = "active"
  /\ txs'[tid].user = txs[tid].user /\ txs'[tid].book = txs[tid].book
  /\ \A j \in TxIds \ {tid} : txs'[j] = txs[j]
  /\ books' = books /\ users' = users /\ now' = now

\* C18: every accepted Renew, on the transaction route or the book route,
\* adds exactly 1 to renewalCount, sets dueDate to now + days and type to
\* renew, keeps the status active and the user and book references, and
\* leaves every Book and every User unchanged.
C18_RenewEffect ==
  /\ \A tid \in TxIds, who \in Users \cup {Staff}, d \in RenewDays :
       RenewByIdOutcome(tid, who, d) = "OK" =>
         ~ENABLED (RenewById(tid, who, d) /\ ~renewEffect(tid, d))
  /\ \A u \in Users, b \in Books :
       RenewByBookOutcome(u, b) = "OK" =>
         ~ENABLED (RenewByBook(u, b)
                     /\ ~renewEffect(findOne(u, b, ActiveStatuses), DefaultRenewDays))

\* C18 witness: a loan after its Renew by 14 days on the day it was borrowed.
C18_Witness ==
  \E tid \in TxIds :
    /\ txs[tid].type = "renew" /\ txs[tid].renewalCount = 1
    /\ txs[tid].status = "active" /\ txs[tid].dueDate = now + DefaultRenewDays
    /\ users[txs[tid].user].currentBorrowedBooks[txs[tid].book] = 1

\* the edges of the status machine the claim C19 lists
StatusEdges ==
  {<<"pending", "active">>, <<"pending", "cancelled">>,
   <<"active", "overdue">>, <<"overdue", "active">>,
   <<"active", "completed">>, <<"overdue", "completed">>,
   <<"active", "lost">>, <<"overdue", "lost">>,
   <<"active", "damaged">>, <<"overdue", "damaged">>}

\* C19: in every step, a stored transaction keeps its status or moves along
\* an edge of the status machine, no transaction disappears, and a new
\* transaction starts as pending or active.
C19_StatusMachine ==
  [][/\ Len(txs') >= Len(txs)
     /\ \A tid \in 1..Len(txs') :
          IF tid \in TxIds
          THEN \/ txs'[tid].status = txs[tid].status
               \/ <<txs[tid].status, txs'[tid].status>> \in StatusEdges
          ELSE txs'[tid].status \in {"pending", "active"}]_vars

\* C19 witness: one transaction went active -> overdue and another
\* pending -> cancelled.
C19_Witness ==
  \E i \in TxIds, j \in TxIds :
    txs[i].status = "overdue" /\ txs[j].status = "cancelled"

\* what a successful CancelReservation of transaction tid does
cancelEffect(tid) ==
  /\ txs' = [txs EXCEPT ![tid].status = "cancelled"]
  /\ books' = books /\ users' = users /\ now' = now

\* C20 as stated: after every successful CancelReservation(u, b) a new
\* Reserve(u, b) is accepted.
C20_Original ==
  \A u \in Users, b \in Books :
    CancelReservationOutcome(u, b) = "OK" =>
      ~ENABLED (CancelReservation(u, b) /\ ReserveOutcome(u, b)' # "OK")

\* C20 amended: CancelReservation(u, b) sets the status of u's pending
\* reserve transaction for b to cancelled and changes nothing else; without
\* such a transaction it is answered NotFound and changes nothing; after a
\* successful cancel a new Reserve(u, b) is accepted when the book is still
\* stored, active and not deleted and u holds no active or overdue loan of
\* it, and is refused as NotFound or DuplicateLoan otherwise.
C20_CancelReservation ==
  \A u \in Users, b \in Books :
    LET tid == findReservation(u, b) IN
    IF tid # 0
    THEN /\ CancelReservationOutcome(u, b) = "OK"
         /\ ~ENABLED (CancelReservation(u, b) /\ ~cancelEffect(tid))
         /\ ~ENABLED (CancelReservation(u, b) /\
               ReserveOutcome(u, b)' #
                 IF bookMissing(books[b]) THEN "NotFound"
                 ELSE IF holdsLoan(u, b) THEN "DuplicateLoan"
                 ELSE "OK")
    ELSE /\ CancelReservationOutcome(u, b) = "NotFound"
         /\ ~ENABLED (CancelReservation(u, b) /\ vars' # vars)

\* C20 witness: a cancelled reservation of a user who can reserve the book
\* again.
C20_Witness ==
  \E tid \in TxIds :
    /\ txs[tid].type = "reserve" /\ txs[tid].status = "cancelled"
    /\ findReservation(txs[tid].user, txs[tid].book) = 0
    /\ ReserveOutcome(txs[tid].user, txs[tid].book) = "OK"

\* a loan stored as active whose dueDate has passed
staleActive(t) == t.status = "active" /\ t.dueDate # NoDate /\ now > t.dueDate

\* C21: a read of an active transaction whose dueDate has passed (get by id
\* by its borrower or by staff, or the overdue query) leaves it stored with
\* status overdue.
C21_OverdueOnRead ==
  \A tid \in TxIds :
    staleActive(txs[tid]) =>
      /\ \A who \in {txs[tid].user, Staff} :
           ~ENABLED (GetTransaction(tid, who) /\ txs'[tid].status # "overdue")
      /\ ~ENABLED (FindOverdueRead /\ txs'[tid].status # "overdue")

\* C22: a staff Return of a loan past its dueDate whose fine is not settled
\* records the fine min(days x 0.50, 25.00), with fineStatus waived when
\* waiveFine is set and pending when it is not.
C22_WaiveOnReturn ==
  \A tid \in TxIds :
    LET t == txs[tid]
        due == fineDue(daysLate(t, now))
    IN (t.status \in ActiveStatuses /\ due > 0 /\ t.fineStatus \notin {"paid", "waived"}) =>
         /\ ~ENABLED (StaffReturn(tid, TRUE) /\
               ~(txs'[tid].fineStatus = "waived" /\ txs'[tid].fineAmount = due))
         /\ ~ENABLED (StaffReturn(tid, FALSE) /\
               ~(txs'[tid].fineStatus = "pending" /\ txs'[tid].fineAmount = due))

\* C23: findOverdue returns exactly the transactions stored as active whose
\* dueDate is earlier than now; a transaction stored as overdue is not
\* returned and its isOverdue virtual is false.
C23_FindOverdue ==
  /\ findOverdue = {i \in TxIds : staleActive(txs[i])}
  /\ \A i \in TxIds :
       txs[i].status = "overdue" => i \notin findOverdue /\ ~isOverdue(txs[i], now)

C23_Witness ==
  \E i, j \in TxIds :
    /\ txs[i].status = "overdue" /\ txs[i].dueDate < now
    /\ j \in findOverdue

\* C24: for every user, the books listed in currentBorrowedBooks are exactly
\* the books for which the user has an active or overdue transaction, each
\* listed once.
C24_BorrowedListMatchesLoans ==
  \A u \in DOMAIN users : \A b \in AllBooks :
    LET listed == users[u].currentBorrowedBooks[b] IN
    /\ listed <= 1
    /\ listed = 1 <=> loansOfPair(u, b) # {}

C24_Witness ==
  \E u \in DOMAIN users : \E b, c \in AllBooks :
    /\ b # c
    /\ users[u].currentBorrowedBooks[b] = 1
    /\ users[u].currentBorrowedBooks[c] = 0
    /\ \E i \in TxIds : txs[i].user = u /\ txs[i].book = c /\ txs[i].status = "completed"

\* C25: for every user totalBooksRead <= totalBooksBorrowed, and the
\* difference is the number of the user's active or overdue transactions.
C25_ReadWithinBorrowed ==
  \A u \in DOMAIN users :
    /\ users[u].totalBooksRead <= users[u].totalBooksBorrowed
    /\ users[u].totalBooksBorrowed - users[u].totalBooksRead = countActiveOfUser(u)

C25_Witness ==
  \E u \in DOMAIN users :
    /\ users[u].totalBooksRead >= 1
    /\ users[u].totalBooksBorrowed > users[u].totalBooksRead

\* C26: a book's isAvailable flag always equals (availableCopies > 0 and not
\* isDeleted), so an active, undeleted, undamaged book with a copy on the
\* shelf is never refused by Borrow as unavailable.
C26_AvailabilityFlag ==
  \A b \in AllBooks : books[b].exists =>
    /\ books[b].isAvailable = (books[b].availableCopies > 0 /\ ~books[b].isDeleted)
    /\ (/\ books[b].isActive /\ ~books[b].isDeleted
        /\ books[b].condition # "damaged" /\ books[b].availableCopies > 0)
         => \A u \in Users : BorrowOutcome(u, b) # "Unavailable"

\* C27: no active or overdue transaction refers to a soft-deleted book;
\* deleting a book that has such a transaction changes nothing, and Borrow
\* of a deleted or inactive book is answered NotFound and changes nothing.
C27_NoLoanOnDeletedBook ==
  /\ \A tid \in TxIds :
       txs[tid].status \in ActiveStatuses => ~books[txs[tid].book].isDeleted
  /\ \A b \in Books :
       countActive(b) > 0 => ~ENABLED (DeleteBook(b) /\ vars' # vars)
  /\ \A b \in Books, u \in Users :
       (books[b].exists /\ (books[b].isDeleted \/ ~books[b].isActive)) =>
         /\ BorrowOutcome(u, b) = "NotFound"
         /\ ~ENABLED (Borrow(u, b) /\ vars' # vars)

completedOf(u) == Cardinality({i \in TxIds : txs[i].user = u /\ txs[i].status = "completed"})

\* C28: when return requests for one transaction interleave, the return is
\* applied once: availableCopies never exceeds totalCopies, and a user's
\* totalBooksRead never exceeds the number of their completed transactions.
C28_ReturnAppliedOnce ==
  /\ \A b \in Books : books[b].exists => books[b].availableCopies <= books[b].totalCopies
  /\ \A u \in Users : users[u].totalBooksRead <= completedOf(u)

settledFine(t) ==
  \/ t.fineStatus = "paid" /\ t.fineAmount > 0
  \/ t.fineStatus = "waived"

fineKept(t, tid) ==
  txs'[tid].fineStatus = t.fineStatus /\ txs'[tid].fineAmount = t.fineAmount

\* C29: a Return, by the borrower or by staff with any value of waiveFine,
\* leaves a fine that is already paid or waived with the same amount and
\* status.
C29_SettledFineKept ==
  \A tid \in TxIds :
    LET t == txs[tid] IN
    (t.status \in ActiveStatuses /\ settledFine(t)) =>
      /\ \A w \in BOOLEAN : ~ENABLED (StaffReturn(tid, w) /\ ~fineKept(t, tid))
      /\ ~ENABLED (MemberReturn(t.user, t.book) /\ ~fineKept(t, tid))

\* C30: every review (all are created with isVerified true) refers to a
\* completed transaction of its author for the book that is reviewed.
C30_VerifiedReviewSameBook ==
  \A i \in ReviewIds :
    LET r == reviews[i] IN
    /\ r.transaction \in TxIds
    /\ txs[r.transaction].user = r.user
    /\ txs[r.transaction].status = "completed"
    /\ txs[r.transaction].book = r.book
====
